---- MODULE Spec2Model ----
(***************************************************************************)
(* Model of CompileTimeEncryption (include/CompileTimeEncryption/XorStr.h) *)
(*                                                                         *)
(* A uint64_t is a tuple of 8 bytes, least-significant byte first, so that *)
(* all 64-bit arithmetic is exact modulo 2^64.  A char is its 8-bit object *)
(* representation (0..255); its signedness (implementation-defined) is the *)
(* build input charSigned and matters where a char is widened.             *)
(***************************************************************************)
EXTENDS Integers, Sequences, FiniteSets, TLC

\* ------------------------------------------------------------------ bounds
\* longest literal (characters before the terminator)
MaxLen == 16
\* longest literal of the two-site specification
MaxSiteLen == 7
\* line numbers 1..MaxLine
MaxLine == 11
\* concurrent callers of Decrypt
NumThreads == 2
\* keystream indices 0..MaxIndex
MaxIndex == 40

\* ------------------------------------------------- machine-level constants
\* sizeof(uint64_t): sizeof(seed) in RandomChar
SizeofSeed == 8
\* sizeof(__m128): the SSE register width
SizeofM128 == 16
\* sizeof(int): operands of ^ on two chars are promoted to int
SizeofInt == 4
\* a byte of an array declared without an initializer that no one has
\* written yet (only ever used for Decrypt's result, which is written
\* before it is read)
Uninit == -1

\* ------------------------------------------------------------------- state
VARIABLES
    CTE_ENCRYPTSTRINGS, \* build: is the CMake option ENCRYPT_STRINGS on
    charSigned,         \* build: is plain char a signed type
    Timestamp,          \* build: the literal __DATE__ __TIME__
    String,             \* the literal's characters (template argument)
    FileName,           \* __FILE__ of the call sites
    LineNumber,         \* site -> __LINE__
    constructed,        \* site -> has XorContext() run
    seed,               \* site -> the constructor's seed
    m_key,              \* site -> XorContext::m_key
    m_encBuf,           \* site -> XorContext::m_encBuf
    pc,                 \* thread -> "idle", "loop", "returned"
    this,               \* thread -> the site whose context it decrypts
    i,                  \* thread -> Decrypt's loop variable
    result,             \* thread -> Decrypt's local result
    oob,                \* thread -> did a load or store leave its array
    rcSeed, rcIndex, rcOut  \* one call RandomChar(rcSeed, rcIndex)

vars == <<CTE_ENCRYPTSTRINGS, charSigned, Timestamp, String, FileName,
          LineNumber, constructed, seed, m_key, m_encBuf,
          pc, this, i, result, oob, rcSeed, rcIndex, rcOut>>

\* ------------------------------------------------------- integer arithmetic
\* C++ passes arguments by value: where a recursive call takes a computed
\* argument, the argument is bound (x \in {value}) before the call is made.

RECURSIVE XorBits(_, _, _)
XorBits(a, b, n) ==
    IF n = 0 THEN 0
    ELSE ((a + b) % 2) + 2 * XorBits(a \div 2, b \div 2, n - 1)

\* ^ on 4-bit values, tabulated
XorNibble == [a \in 0..15 |-> [b \in 0..15 |-> XorBits(a, b, 4)]]

\* ^ on two bytes
XorByte(a, b) ==
    XorNibble[a % 16][b % 16] + 16 * XorNibble[a \div 16][b \div 16]

RECURSIVE OrBits(_, _, _)
OrBits(a, b, n) ==
    IF n = 0 THEN 0
    ELSE (IF a % 2 = 1 \/ b % 2 = 1 THEN 1 ELSE 0)
         + 2 * OrBits(a \div 2, b \div 2, n - 1)

\* bytewise ^ on two integers of the same width, from byte k on
RECURSIVE XorFrom(_, _, _)
XorFrom(x, y, k) ==
    IF k > Len(x) THEN << >>
    ELSE <<XorByte(x[k], y[k])>> \o XorFrom(x, y, k + 1)

XorWord(x, y) == XorFrom(x, y, 1)

\* uint64_t ^ uint64_t
XorU64(x, y) ==
    <<XorByte(x[1], y[1]), XorByte(x[2], y[2]), XorByte(x[3], y[3]),
      XorByte(x[4], y[4]), XorByte(x[5], y[5]), XorByte(x[6], y[6]),
      XorByte(x[7], y[7]), XorByte(x[8], y[8])>>

\* byte k and up of uint64_t x >> (8 * q + r)
RECURSIVE ShrFrom(_, _, _, _)
ShrFrom(x, q, r, k) ==
    IF k > SizeofSeed THEN << >>
    ELSE LET lo == IF k + q <= SizeofSeed THEN x[k + q] ELSE 0
             hi == IF k + q + 1 <= SizeofSeed THEN x[k + q + 1] ELSE 0
         IN  <<(lo \div (2 ^ r)) + (hi % (2 ^ r)) * (2 ^ (8 - r))>>
             \o ShrFrom(x, q, r, k + 1)

\* uint64_t >> s, 0 <= s < 64
ShrU64(x, s) == ShrFrom(x, s \div 8, s % 8, 1)

\* uint64_t * uint64_t: schoolbook product of the bytes, the carries
\* propagated upwards and the bytes above the eighth dropped (modulo 2^64)
MulU64(x, y) ==
    LET
        t1 == x[1] * y[1]
        t2 == x[1] * y[2] + x[2] * y[1] + (t1 \div 256)
        t3 == x[1] * y[3] + x[2] * y[2] + x[3] * y[1] + (t2 \div 256)
        t4 == x[1] * y[4] + x[2] * y[3] + x[3] * y[2] + x[4] * y[1] + (t3 \div 256)
        t5 == x[1] * y[5] + x[2] * y[4] + x[3] * y[3] + x[4] * y[2]
              + x[5] * y[1] + (t4 \div 256)
        t6 == x[1] * y[6] + x[2] * y[5] + x[3] * y[4] + x[4] * y[3]
              + x[5] * y[2] + x[6] * y[1] + (t5 \div 256)
        t7 == x[1] * y[7] + x[2] * y[6] + x[3] * y[5] + x[4] * y[4]
              + x[5] * y[3] + x[6] * y[2] + x[7] * y[1] + (t6 \div 256)
        t8 == x[1] * y[8] + x[2] * y[7] + x[3] * y[6] + x[4] * y[5]
              + x[5] * y[4] + x[6] * y[3] + x[7] * y[2] + x[8] * y[1] + (t7 \div 256)
    IN  <<t1 % 256, t2 % 256, t3 % 256, t4 % 256,
          t5 % 256, t6 % 256, t7 % 256, t8 % 256>>

\* uint64_t + uint64_t: the carries propagated, the ninth byte dropped
AddU64(x, y) ==
    LET t1 == x[1] + y[1]
        t2 == x[2] + y[2] + (t1 \div 256)
        t3 == x[3] + y[3] + (t2 \div 256)
        t4 == x[4] + y[4] + (t3 \div 256)
        t5 == x[5] + y[5] + (t4 \div 256)
        t6 == x[6] + y[6] + (t5 \div 256)
        t7 == x[7] + y[7] + (t6 \div 256)
        t8 == x[8] + y[8] + (t7 \div 256)
    IN  <<t1 % 256, t2 % 256, t3 % 256, t4 % 256,
          t5 % 256, t6 % 256, t7 % 256, t8 % 256>>

\* the w low bytes of a size_t value (here below 2^31)
RECURSIVE ToBytes(_, _)
ToBytes(n, w) == IF w = 0 THEN << >> ELSE <<n % 256>> \o ToBytes(n \div 256, w - 1)

\* a size_t value as a uint64_t
ToU64(n) == ToBytes(n, SizeofSeed)

\* w - 1 copies of byte b
RECURSIVE Fill(_, _)
Fill(b, w) == IF w <= 1 THEN << >> ELSE <<b>> \o Fill(b, w - 1)

\* integral promotion of a char, then conversion to a w-byte integer:
\* where char is signed, a char with the top bit set is sign-extended
Widen(c, w, signed) == <<c>> \o Fill(IF signed /\ c >= 128 THEN 255 ELSE 0, w)

\* conversion of an integer back to char: its low byte
Narrow(x) == x[1]

\* ------------------------------------------------------------- FixedString
\* FixedString<N>(s): buf[N + 1]{} zero-filled, then the N characters copied
FixedString(s) == s \o <<0>>

\* FixedString<N>::size()
FixedStringSize(buf) == Len(buf)

\* ------------------------------------------------------------------ hashes
\* 0xbf58476d1ce4e5b9
SM_MUL1 == <<185, 229, 228, 28, 109, 71, 88, 191>>
\* 0x94d049bb133111eb
SM_MUL2 == <<235, 17, 49, 19, 187, 73, 208, 148>>

\* a SplitMix64 whose first line lost its "x ^"
SplitMix64NoXor(x) ==
    LET x1 == MulU64(ShrU64(x, 30), SM_MUL1)
        x2 == MulU64(XorU64(x1, ShrU64(x1, 27)), SM_MUL2)
    IN  XorU64(x2, ShrU64(x2, 31))

SplitMix64(x) ==
    LET x1 == MulU64(XorU64(x, ShrU64(x, 30)), SM_MUL1)
        x2 == MulU64(XorU64(x1, ShrU64(x1, 27)), SM_MUL2)
    IN  XorU64(x2, ShrU64(x2, 31))

\* 0xcbf29ce484222325, the default of FNV1's hash parameter
FNV_OFFSET == <<37, 35, 34, 132, 228, 156, 242, 203>>
\* 0x100000001b3
FNV_PRIME == <<179, 1, 0, 0, 0, 1, 0, 0>>

\* ptr is a null-terminated character sequence
RECURSIVE FNV1(_, _, _)
FNV1(ptr, hash, signed) ==
    IF Head(ptr) # 0
    THEN CHOOSE r \in
           {FNV1(Tail(ptr), h, signed) :
              h \in {XorU64(MulU64(hash, FNV_PRIME),
                            Widen(Head(ptr), SizeofSeed, signed))}} : TRUE
    ELSE hash

\* 6364136223846793005 = 0x5851f42d4c957f2d
MULTIPLIER == <<45, 127, 149, 76, 45, 244, 81, 88>>
\* 1442695040888963407 = 0x14057b7ef767814f
INCREMENT == <<79, 129, 103, 247, 126, 123, 5, 20>>

Random64(lastVal) == AddU64(MulU64(MULTIPLIER, lastVal), INCREMENT)

\* the for loop of RandomChar: n more applications of Random64
RECURSIVE RandomCharLoop(_, _)
RandomCharLoop(s, n) ==
    IF n = 0 THEN s
    ELSE CHOOSE r \in {RandomCharLoop(v, n - 1) : v \in {Random64(s)}} : TRUE

\* a generator stepped once for every started group of 8 indices
RandomCharStepsCeil(index) == (index + SizeofSeed - 1) \div SizeofSeed

\* how many times RandomChar steps the generator for an index
RandomCharSteps(index) == index \div SizeofSeed

RandomChar(s, index) ==
    LET st == RandomCharLoop(s, RandomCharSteps(index))
    IN  Narrow(ShrU64(st, (index % SizeofSeed) * 8))

\* str and file are the buf of the template arguments String and FileName,
\* ts the literal __DATE__ __TIME__
RandomSeed(str, file, line, ts, signed) ==
    XorU64(XorU64(XorU64(FNV1(str, FNV_OFFSET, signed),
                            FNV1(file, FNV_OFFSET, signed)),
                    FNV1(ts, FNV_OFFSET, signed)),
            SplitMix64(ToU64(line)))

\* an Align without its test: it pads values that are aligned already
AlignAlways(Alignment, val) == OrBits(val, Alignment - 1, 31) + 1

\* Align<Alignment>(val)
Align(Alignment, val) ==
    IF (val % Alignment) # 0
    THEN OrBits(val, Alignment - 1, 31) + 1
    ELSE val

\* ------------------------------------------------------------ sample inputs
\* "hello" followed by U+00E9 in UTF-8 and more characters
Text == <<104, 101, 108, 108, 111, 195, 169, 32, 119, 111, 114, 108, 100, 33,
          32, 48, 49, 50, 51, 52, 53, 54, 55, 56, 57, 97, 98, 99>>

\* the literals of at most n characters
Literals(n) == {SubSeq(Text, 1, k) : k \in 0..n}

\* "a.cpp", "b.cpp"
FileNames == {<<97, 46, 99, 112, 112>>, <<98, 46, 99, 112, 112>>}

\* __DATE__ __TIME__ of two builds: "Nov  6 202610:36:00", "Nov  6 202610:36:01"
Timestamps == {<<78, 111, 118, 32, 32, 54, 32, 50, 48, 50, 54,
                 49, 48, 58, 51, 54, 58, 48, 48>>,
               <<78, 111, 118, 32, 32, 54, 32, 50, 48, 50, 54,
                 49, 48, 58, 51, 54, 58, 48, 49>>}

\* what never-written storage may hold
StackGarbage == {0, 204}

\* ------------------------------------------------------------- XorContext
\* a constexpr_for that stops before the terminator
CtorEndNoTerminator(str) == FixedStringSize(str) - 1

\* End of the constructor's constexpr_for<0, String.size(), 1>
CtorEnd(str) == FixedStringSize(str)

\* the length of m_key, m_encBuf and of Decrypt's result
BufLen(str) == Align(SizeofM128, FixedStringSize(str))

\* m_key[i] ^ String.buf[i]: both promoted to int, the result stored in a char
EncChar(k, c, signed) ==
    Narrow(XorWord(Widen(k, SizeofInt, signed), Widen(c, SizeofInt, signed)))

\* the elements of m_key the constructor's lambda writes, from index j on
RECURSIVE CtorKey(_, _, _)
CtorKey(sd, end, j) ==
    IF j >= end THEN << >>
    ELSE <<RandomChar(sd, j)>> \o CtorKey(sd, end, j + 1)

\* the elements of m_encBuf the constructor's lambda writes, from index j on
RECURSIVE CtorEnc(_, _, _, _, _)
CtorEnc(key, str, signed, end, j) ==
    IF j >= end THEN << >>
    ELSE <<EncChar(key[j + 1], str[j + 1], signed)>>
         \o CtorEnc(key, str, signed, end, j + 1)

\* the n elements of a member array behind those the constructor wrote: the
\* members have no initializer, so they hold what the storage held before
Unwritten(g, n) == [j \in 1..n |-> g]

\* XorContext<String, FileName, LineNumber>::XorContext()
Construct(s) ==
    /\ ~constructed[s]
    /\ \E str \in {FixedString(String)} :
       \E sd \in {RandomSeed(str, FixedString(FileName), LineNumber[s],
                             FixedString(Timestamp), charSigned)} :
       \E key \in {CtorKey(sd, CtorEnd(str), 0)} :
       \E enc \in {CtorEnc(key, str, charSigned, CtorEnd(str), 0)} :
       \E gk \in StackGarbage, ge \in StackGarbage :
         /\ seed' = [seed EXCEPT ![s] = sd]
         /\ m_key' = [m_key EXCEPT ![s] =
                        key \o Unwritten(gk, BufLen(str) - Len(key))]
         /\ m_encBuf' = [m_encBuf EXCEPT ![s] =
                           enc \o Unwritten(ge, BufLen(str) - Len(enc))]
    /\ constructed' = [constructed EXCEPT ![s] = TRUE]
    /\ UNCHANGED <<CTE_ENCRYPTSTRINGS, charSigned, Timestamp, String, FileName,
                   LineNumber, pc, this, i, result, oob, rcSeed, rcIndex, rcOut>>

\* --------------------------------------------------------------- Decrypt
\* a loop condition that is off by one
LoopCondInclusive(iv, size) == iv <= size

\* the condition of Decrypt's for loop
LoopCond(iv, size) == iv < size

\* a result with static storage: one array for all callers
ResultShared(t) == 1

\* whose storage Decrypt's local array result is: the calling thread's own
ResultOf(t) == t

\* _mm_load_ps(buf + off): the 16 bytes there; bytes outside the array are
\* whatever lies behind it (g)
Load(buf, off, g) ==
    [j \in 1..SizeofM128 |-> IF off + j <= Len(buf) THEN buf[off + j] ELSE g]

\* _mm_xor_ps: ^ on all 128 bits
XorPs(a, b) == [j \in 1..SizeofM128 |-> XorByte(a[j], b[j])]

\* _mm_store_ps(buf + off, reg): buf afterwards
Store(buf, off, reg) ==
    [j \in 1..Len(buf) |->
        IF off < j /\ j <= off + SizeofM128 THEN reg[j - off] ELSE buf[j]]

\* does the 16-byte access at buf + off stay inside buf
InBounds(buf, off) == off + SizeofM128 <= Len(buf)

\* Decrypt() is entered on the context of site s: result is declared
Call(t, s) ==
    /\ pc[t] = "idle"
    /\ constructed[s]
    /\ pc' = [pc EXCEPT ![t] = "loop"]
    /\ this' = [this EXCEPT ![t] = s]
    /\ i' = [i EXCEPT ![t] = 0]
    /\ result' = [result EXCEPT ![ResultOf(t)] =
                    [j \in 1..BufLen(FixedString(String)) |-> Uninit]]
    /\ oob' = [oob EXCEPT ![t] = FALSE]
    /\ UNCHANGED <<CTE_ENCRYPTSTRINGS, charSigned, Timestamp, String, FileName,
                   LineNumber, constructed, seed, m_key, m_encBuf,
                   rcSeed, rcIndex, rcOut>>

\* one iteration of the loop: _mm_load_ps twice, _mm_xor_ps, _mm_store_ps
Block(t) ==
    /\ pc[t] = "loop"
    /\ LoopCond(i[t], FixedStringSize(FixedString(String)))
    /\ \E g \in IF InBounds(m_key[this[t]], i[t]) /\ InBounds(m_encBuf[this[t]], i[t])
               THEN {0} ELSE StackGarbage :
         result' = [result EXCEPT ![ResultOf(t)] =
                      Store(@, i[t],
                            XorPs(Load(m_key[this[t]], i[t], g),
                                  Load(m_encBuf[this[t]], i[t], g)))]
    /\ oob' = [oob EXCEPT ![t] =
                 \/ @
                 \/ ~InBounds(m_key[this[t]], i[t])
                 \/ ~InBounds(m_encBuf[this[t]], i[t])
                 \/ ~InBounds(result[ResultOf(t)], i[t])]
    /\ i' = [i EXCEPT ![t] = @ + SizeofM128]
    /\ UNCHANGED <<CTE_ENCRYPTSTRINGS, charSigned, Timestamp, String, FileName,
                   LineNumber, constructed, seed, m_key, m_encBuf,
                   pc, this, rcSeed, rcIndex, rcOut>>

\* the loop condition fails: return result
Return(t) ==
    /\ pc[t] = "loop"
    /\ ~LoopCond(i[t], FixedStringSize(FixedString(String)))
    /\ pc' = [pc EXCEPT ![t] = "returned"]
    /\ UNCHANGED <<CTE_ENCRYPTSTRINGS, charSigned, Timestamp, String, FileName,
                   LineNumber, constructed, seed, m_key, m_encBuf,
                   this, i, result, oob, rcSeed, rcIndex, rcOut>>

\* the returned temporary's lifetime ends with the full expression
Release(t) ==
    /\ pc[t] = "returned"
    /\ pc' = [pc EXCEPT ![t] = "idle"]
    /\ result' = [result EXCEPT ![ResultOf(t)] = << >>]
    /\ i' = [i EXCEPT ![t] = 0]
    /\ UNCHANGED <<CTE_ENCRYPTSTRINGS, charSigned, Timestamp, String, FileName,
                   LineNumber, constructed, seed, m_key, m_encBuf,
                   this, oob, rcSeed, rcIndex, rcOut>>

\* ------------------------------------------------------------ one call site
Threads == 1..NumThreads

Init ==
    /\ CTE_ENCRYPTSTRINGS \in BOOLEAN
    /\ charSigned \in BOOLEAN
    /\ Timestamp \in Timestamps
    /\ String \in Literals(MaxLen)
    /\ FileName \in FileNames
    /\ LineNumber \in [{1} -> {MaxLine - 1, MaxLine}]
    /\ constructed = [s \in {1} |-> FALSE]
    /\ seed = [s \in {1} |-> << >>]
    /\ m_key = [s \in {1} |-> << >>]
    /\ m_encBuf = [s \in {1} |-> << >>]
    /\ pc = [t \in Threads |-> "idle"]
    /\ this = [t \in Threads |-> 1]
    /\ i = [t \in Threads |-> 0]
    /\ result = [t \in Threads |-> << >>]
    /\ oob = [t \in Threads |-> FALSE]
    /\ rcSeed = << >> /\ rcIndex = 0 /\ rcOut = Uninit

Next ==
    \/ \E s \in DOMAIN constructed : Construct(s)
    \/ \E t \in DOMAIN pc : \E s \in DOMAIN constructed : Call(t, s)
    \/ \E t \in DOMAIN pc : Block(t)
    \/ \E t \in DOMAIN pc : Return(t)
    \/ \E t \in DOMAIN pc : Release(t)

Spec == Init /\ [][Next]_vars

\* ----------------------------------------------- two call sites of one build
Sites == 1..2

InitSites ==
    /\ CTE_ENCRYPTSTRINGS = TRUE
    /\ charSigned \in BOOLEAN
    /\ Timestamp = CHOOSE ts \in Timestamps : TRUE
    /\ String \in Literals(MaxSiteLen)
    /\ FileName = CHOOSE f \in FileNames : TRUE
    /\ LineNumber \in {l \in [Sites -> 1..MaxLine] : l[1] < l[2]}
    /\ constructed = [s \in Sites |-> FALSE]
    /\ seed = [s \in Sites |-> << >>]
    /\ m_key = [s \in Sites |-> << >>]
    /\ m_encBuf = [s \in Sites |-> << >>]
    /\ pc = << >> /\ this = << >> /\ i = << >> /\ result = << >> /\ oob = << >>
    /\ rcSeed = << >> /\ rcIndex = 0 /\ rcOut = Uninit

NextSites == \E s \in DOMAIN constructed : Construct(s)

SpecSites == InitSites /\ [][NextSites]_vars

\* ------------------------------------------------- one call of RandomChar
\* seeds: the SplitMix64 of small numbers, and those numbers themselves
Seeds == {ToU64(0), ToU64(1), SplitMix64(ToU64(1)), SplitMix64(ToU64(2))}

InitKeystream ==
    /\ CTE_ENCRYPTSTRINGS = TRUE /\ charSigned \in BOOLEAN
    /\ Timestamp = << >> /\ String = << >> /\ FileName = << >>
    /\ LineNumber = << >> /\ constructed = << >> /\ seed = << >>
    /\ m_key = << >> /\ m_encBuf = << >>
    /\ pc = << >> /\ this = << >> /\ i = << >> /\ result = << >> /\ oob = << >>
    /\ rcSeed \in Seeds /\ rcIndex \in 0..MaxIndex /\ rcOut = Uninit

CallRandomChar ==
    /\ rcOut = Uninit
    /\ rcOut' = RandomChar(rcSeed, rcIndex)
    /\ UNCHANGED <<CTE_ENCRYPTSTRINGS, charSigned, Timestamp, String, FileName,
                   LineNumber, constructed, seed, m_key, m_encBuf,
                   pc, this, i, result, oob, rcSeed, rcIndex>>

NextKeystream == CallRandomChar

SpecKeystream == InitKeystream /\ [][NextKeystream]_vars
\* ================================================================== claims
\* ---- reference definitions used by the claims
\* the number written with the given digits in the given base, modulo 2^64
RECURSIVE FromDigits(_, _, _)
FromDigits(ds, base, n) ==
    IF n = 0 THEN ToU64(0)
    ELSE CHOOSE r \in
           {AddU64(MulU64(hi, ToU64(base)), ToU64(ds[n])) :
              hi \in {FromDigits(ds, base, n - 1)}} : TRUE

\* 0xcbf29ce484222325
RefFnvOffset ==
    FromDigits(<<12, 11, 15, 2, 9, 12, 14, 4, 8, 4, 2, 2, 2, 3, 2, 5>>, 16, 16)
\* 0x100000001b3
RefFnvPrime == FromDigits(<<1, 0, 0, 0, 0, 0, 0, 0, 1, 11, 3>>, 16, 11)
\* 6364136223846793005
RefLcgMultiplier ==
    FromDigits(<<6, 3, 6, 4, 1, 3, 6, 2, 2, 3, 8, 4, 6, 7, 9, 3, 0, 0, 5>>, 10, 19)
\* 1442695040888963407
RefLcgIncrement ==
    FromDigits(<<1, 4, 4, 2, 6, 9, 5, 0, 4, 0, 8, 8, 8, 9, 6, 3, 4, 0, 7>>, 10, 19)

\* the characters of a null-terminated sequence before its first null
RECURSIVE BeforeNull(_)
BeforeNull(ptr) ==
    IF Head(ptr) = 0 THEN << >> ELSE <<Head(ptr)>> \o BeforeNull(Tail(ptr))

\* reference FNV-1 of the first n of the given bytes, each an unsigned value
RECURSIVE RefFnv1(_, _)
RefFnv1(bytes, n) ==
    IF n = 0 THEN RefFnvOffset
    ELSE CHOOSE r \in
           {XorU64(MulU64(h, RefFnvPrime), <<bytes[n], 0, 0, 0, 0, 0, 0, 0>>) :
              h \in {RefFnv1(bytes, n - 1)}} : TRUE

RefHash(ptr) == RefFnv1(BeforeNull(ptr), Len(BeforeNull(ptr)))

\* the generator's state after n steps from st
RECURSIVE RefLcg(_, _)
RefLcg(st, n) ==
    IF n = 0 THEN st
    ELSE CHOOSE r \in
           {AddU64(MulU64(RefLcgMultiplier, v), RefLcgIncrement) :
              v \in {RefLcg(st, n - 1)}} : TRUE

\* the smallest multiple of 16 that is >= n
RefPadded(n) == ((n + 15) \div 16) * 16

\* the sites whose context exists, the threads inside or back from Decrypt
Built == {s \in DOMAIN constructed : constructed[s]}
Active == {t \in DOMAIN pc : pc[t] \in {"loop", "returned"}}
Returned == {t \in DOMAIN pc : pc[t] = "returned"}

\* what one isolated Decrypt() on the context of site s returns
Isolated(s) == [j \in 1..Len(m_key[s]) |-> XorByte(m_key[s][j], m_encBuf[s][j])]

\* ---- C1
\* C1: round trip: the buffer Decrypt() returns holds the literal's L
\* characters in its first L bytes and the null terminator in byte L.
C1_RoundTrip ==
    \A t \in Returned :
        /\ Len(result[ResultOf(t)]) > Len(String)
        /\ \A j \in 1..Len(String) : result[ResultOf(t)][j] = String[j]
        /\ result[ResultOf(t)][Len(String) + 1] = 0

C1_Witness ==
    \E t \in Returned : Len(String) >= 7 /\ charSigned /\ LineNumber[1] = 10

\* ---- C2
\* C2: for a literal of length L the key buffer, the ciphertext buffer and
\* the buffer Decrypt() returns all have the length of the smallest multiple
\* of 16 that is >= L + 1; L = 5 gives 16, L = 15 gives 16, L = 16 gives 32.
C2_PaddedLength ==
    /\ \A s \in Built :
         /\ Len(m_key[s]) = RefPadded(Len(String) + 1)
         /\ Len(m_encBuf[s]) = RefPadded(Len(String) + 1)
         /\ Len(String) = 5 => Len(m_key[s]) = 16
         /\ Len(String) = 15 => Len(m_key[s]) = 16
         /\ Len(String) = 16 => Len(m_key[s]) = 32
    /\ \A t \in Active :
         Len(result[ResultOf(t)]) = RefPadded(Len(String) + 1)

C2_Witness ==
    \E t \in Returned : Len(String) = 15 /\ Len(result[ResultOf(t)]) = 16

\* ---- C3
\* C3: when the build toggle is off (CTE_ENCRYPTSTRINGS not defined), XorStr
\* and XorStr_ are the identity on the literal: no key is generated, nothing
\* is XOR-encoded, no vectorized decryption runs, and the result's first
\* L + 1 bytes are the literal and its terminator.
C3_DisabledIsIdentity ==
    ~CTE_ENCRYPTSTRINGS =>
        /\ Built = {}
        /\ Active = {}
        /\ \A t \in Returned :
             \A j \in 1..(Len(String) + 1) :
                result[ResultOf(t)][j] = FixedString(String)[j]

\* ---- C4
\* C4: the same literal at two different lines of one file in one build
\* has different key buffers and different ciphertext buffers, for every
\* literal and every two different lines.
C4_PerSiteUnique ==
    \A s1 \in Built, s2 \in Built :
        LineNumber[s1] # LineNumber[s2] =>
            /\ m_key[s1] # m_key[s2]
            /\ m_encBuf[s1] # m_encBuf[s2]

\* ---- C5
\* C5: the seed is Fnv1(String) XOR Fnv1(FileName) XOR Fnv1(timestamp) XOR
\* SplitMix64(LineNumber), Fnv1 being the reference 64-bit FNV-1 over the
\* bytes before the first null, each byte taken as an unsigned value.
C5_SeedIsReference ==
    \A s \in Built :
        seed[s] = XorU64(XorU64(XorU64(RefHash(FixedString(String)),
                                       RefHash(FixedString(FileName))),
                                RefHash(FixedString(Timestamp))),
                         SplitMix64(ToU64(LineNumber[s])))

\* ---- C6
\* C6: RandomChar(seed, index) is byte (index mod 8), least significant
\* first, of the state reached from seed by floor(index / 8) steps
\* state -> 6364136223846793005 * state + 1442695040888963407 mod 2^64;
\* indices 0..7 are the bytes of the seed itself.
C6_KeystreamIndexing ==
    rcOut # Uninit =>
        /\ rcOut = RefLcg(rcSeed, rcIndex \div 8)[(rcIndex % 8) + 1]
        /\ rcIndex < 8 => rcOut = rcSeed[rcIndex + 1]

C6_Witness == rcOut # Uninit /\ rcIndex = 37 /\ rcSeed = ToU64(1)

\* ---- C7
\* C7: after the constructor, for every index i below the padded length
\* key[i] = ByteAt(seed, i) and cipher[i] = key[i] XOR p[i], p[i] being the
\* literal's byte up to the terminator and 0 behind it; so Decrypt() returns
\* the literal followed by null padding.
C7_CtorFillsPadded ==
    /\ \A s \in Built :
         \A j \in 1..Len(m_key[s]) :
            /\ m_key[s][j] = RandomChar(seed[s], j - 1)
            /\ m_encBuf[s][j] =
                 XorByte(m_key[s][j], IF j <= Len(String) THEN String[j] ELSE 0)
    /\ \A t \in Returned :
         \A j \in 1..Len(result[ResultOf(t)]) :
            result[ResultOf(t)][j] = IF j <= Len(String) THEN String[j] ELSE 0

\* ---- C8
\* C8: Decrypt only reads the context: whatever the interleaving of the
\* callers, every returned buffer is the one an isolated call returns ...
C8_ReturnsIsolated ==
    \A t \in Returned : result[ResultOf(t)] = Isolated(this[t])

\* ... and no step of a Decrypt call writes the key or the ciphertext
\* buffer, and a caller's output buffer changes only by that caller's steps.
C8_WritesOwnBuffer ==
    /\ \A s \in Built :
         /\ constructed'[s]
         /\ m_key'[s] = m_key[s]
         /\ m_encBuf'[s] = m_encBuf[s]
    /\ \A t \in DOMAIN pc :
         result'[t] # result[t] => (pc'[t] # pc[t] \/ i'[t] # i[t])

C8_DecryptIsPureReader == []C8_ReturnsIsolated /\ [][C8_WritesOwnBuffer]_vars

C8_Witness ==
    /\ Len(String) = 16
    /\ pc[1] = "returned"
    /\ pc[2] = "loop" /\ i[2] = 16

\* ---- C9
\* C9: Decrypt's loop visits the offsets 0, 16, 32, ... while below L + 1;
\* every 16-byte load and store stays inside the padded length; the blocks
\* cover every index exactly once, result[j] = key[j] XOR cipher[j]; and the
\* loop ends after exactly paddedLength / 16 iterations.
C9_BlockLoop ==
    \A t \in Active :
        LET n == RefPadded(Len(String) + 1)
            r == result[ResultOf(t)]
        IN  /\ ~oob[t]
            /\ i[t] % 16 = 0
            /\ i[t] <= n
            /\ Len(r) = n
            /\ \A j \in 1..n :
                 r[j] = IF j <= i[t] THEN Isolated(this[t])[j] ELSE Uninit
            /\ pc[t] = "returned" => i[t] = n
            /\ (pc[t] = "loop" /\ i[t] < n) => i[t] < Len(String) + 1

C9_Witness ==
    \E t \in Returned : Len(String) = 16 /\ i[t] = 32 /\ ~oob[t]

\* ---- C10
\* C10: SplitMix64 is one-to-one, so with the literal, the file name and the
\* build timestamp fixed, two different line numbers always give two
\* different seeds.
C10_SeedsDiffer ==
    \A s1 \in Built, s2 \in Built :
        LineNumber[s1] # LineNumber[s2] => seed[s1] # seed[s2]

C10_Witness ==
    /\ Built = Sites
    /\ LineNumber[1] = 10 /\ LineNumber[2] = 11
    /\ String = <<104, 101, 108, 108, 111>>
====
